---- MODULE Spec2Model ----
(***************************************************************************)
(* netcheck: the interface-selection state machine of App (main.rs), the   *)
(* render loop App::run with its mpsc result channel, and the two probe    *)
(* threads fetch_and_return_local_info (fetch_local.rs) and                *)
(* fetch_and_return_dns_info (fetch_dns.rs).                               *)
(*                                                                         *)
(* Option<T> values are modelled as sequences: None is <<>> and Some(x) is *)
(* <<x>>.  Interface names and server addresses are opaque, so they are    *)
(* drawn from 1..n.                                                        *)
(***************************************************************************)
EXTENDS Integers, Sequences, FiniteSets, TLC

\* Largest number of interfaces the host reports.
MaxIfaces == 2
\* Largest number of nameserver lines in the DNS configuration.
MaxServers == 2
\* Number of distinct nameserver addresses the configuration may mention.
MaxAddrs == 2

\* Longest nameserver list given to the deduplication on its own.
DedupMaxLen == 5
\* Number of distinct addresses in those lists.
DedupAddrs == 3

\* Longest run of queued messages given to the drain on its own.
ApplyMaxLen == 2

None == <<>>
Some(x) == <<x>>

Addrs == 1..MaxAddrs

RECURSIVE SeqsUpTo(_, _)
SeqsUpTo(S, n) ==
    IF n = 0 THEN {<<>>}
    ELSE LET shorter == SeqsUpTo(S, n - 1)
         IN shorter \cup {Append(s, x) : s \in {t \in shorter : Len(t) = n - 1}, x \in S}

\* The lists netlib::get_interfaces can return: 0..MaxIfaces distinct names.
HostInterfaceLists == {[i \in 1..n |-> i] : n \in 0..MaxIfaces}

\* Addresses are only ever compared for equality, so a list is taken up to
\* renaming: its addresses are numbered in the order of their first occurrence.
FirstOccurrenceOrder(s) ==
    \A i \in 1..Len(s) : \A a \in 1..(s[i] - 1) : \E j \in 1..(i - 1) : s[j] = a

\* The nameserver lists get_dns_servers can return on success.
ConfigServerLists == {s \in SeqsUpTo(Addrs, MaxServers) : FirstOccurrenceOrder(s)}

VARIABLES
    interfaces,             \* what netlib::get_interfaces() returns on this host
    mainpc,                 \* position of the main thread
    exit,                   \* App.exit
    stage,                  \* App.stage
    interface_list,         \* App.interface_list
    interface_hover_index,  \* App.interface_hover_index
    chosen_interface,       \* App.chosen_interface
    rx,                     \* App.receive_new_data_channel: None or Some(receiver)
    rx_dropped,             \* the Receiver has been dropped (App dropped)
    chan,                   \* messages in flight in the mpsc channel
    network_info,           \* App.network_info
    frame,                  \* the last frame painted by terminal.draw
    last_key,               \* outcome of handle_events in the tick that just ended
    local_pc,               \* position of the local-info probe thread
    dns_pc,                 \* position of the DNS probe thread
    dns_servers,            \* fetch_and_return_dns_info: local dns_servers
    dns_info,               \* fetch_and_return_dns_info: local dns_info
    dns_idx,                \* fetch_and_return_dns_info: position of the for loop
    local_sent,             \* history: LocalInfo payloads sent by the local probe
    dns_sent,               \* history: DNSInfo payloads sent by the DNS probe
    dns_config,             \* history: what get_dns_servers returned
    dns_lookup,             \* history: how get_interface_ip ended in the DNS probe
    dns_checked,            \* history: the check_dns_resolution calls and their responses
    dns_elapsed,            \* history: time from the start of the latest check to the next one's
    dns_applied,            \* history: number of DNSInfo messages applied by run
    spawned,                \* history: number of threads spawned per category
    channels_created        \* history: number of mpsc::channel() calls

vars == <<interfaces, mainpc, exit, stage, interface_list, interface_hover_index,
          chosen_interface, rx, rx_dropped, chan, network_info, frame, last_key,
          local_pc, dns_pc, dns_servers, dns_info, dns_idx,
          local_sent, dns_sent, dns_config, dns_lookup, dns_checked, dns_elapsed,
          dns_applied, spawned, channels_created>>

appVars == <<exit, stage, interface_list, interface_hover_index, chosen_interface>>
probeVars == <<local_pc, dns_pc, dns_servers, dns_info, dns_idx, local_sent, dns_sent,
               dns_config, dns_lookup, dns_checked, dns_elapsed>>

----------------------------------------------------------------------------
\* Data

DefaultLocalInfo == [local_ip |-> None, subnet_mask |-> None, gateway |-> None]

DefaultDNSInfo == [can_fetch |-> None, can_bind_interface |-> None, dns_servers |-> <<>>]

DefaultNetworkInfo == [local_info |-> DefaultLocalInfo, dns_info |-> DefaultDNSInfo]

LocalInfoMessage(info) == [tag |-> "LocalInfo", val |-> info]

DNSInfoMessage(info) == [tag |-> "DNSInfo", val |-> info]

\* DNSInfo sent when /etc/resolv.conf cannot be read or parsed.
CannotFetchInfo == [can_fetch |-> Some(FALSE), can_bind_interface |-> None, dns_servers |-> <<>>]

\* variant: the bind failure is reported like a configuration failure
CannotBindInfo_NoSignal == [can_fetch |-> Some(FALSE), can_bind_interface |-> None, dns_servers |-> <<>>]

\* variant: the servers found so far stay in the cannot-bind message
CannotBindInfo_KeepsServers == [can_fetch |-> Some(FALSE), can_bind_interface |-> Some(FALSE), dns_servers |-> dns_info.dns_servers]

\* DNSInfo sent when the interface has no usable address or bind fails.
CannotBindInfo == [can_fetch |-> Some(FALSE), can_bind_interface |-> Some(FALSE), dns_servers |-> <<>>]

\* variant: only the element pushed last is compared
Contains_LastOnly(acc, x) == Len(acc) > 0 /\ acc[Len(acc)] = x

Contains(acc, x) == \E i \in 1..Len(acc) : acc[i] = x

\* fold that eliminates duplicates while preserving order
RECURSIVE DedupFold(_, _)
DedupFold(acc, rest) ==
    IF rest = <<>> THEN acc
    ELSE DedupFold(IF Contains(acc, Head(rest)) THEN acc ELSE Append(acc, Head(rest)),
                   Tail(rest))

Dedup(servers) == DedupFold(<<>>, servers)

\* variant: an empty server list is reported as a failed fetch
InitialDNSInfo_EmptyIsFailure(servers) ==
    [can_fetch |-> Some(Len(servers) > 0), can_bind_interface |-> None,
     dns_servers |-> [i \in 1..Len(servers) |-> [ip |-> servers[i], can_resolve |-> None]]]

\* the DNSInfo built before the checks start: every server with can_resolve None
InitialDNSInfo(servers) ==
    [can_fetch |-> Some(TRUE), can_bind_interface |-> None,
     dns_servers |-> [i \in 1..Len(servers) |-> [ip |-> servers[i], can_resolve |-> None]]]

\* index of the first entry whose ip equals server, 0 if there is none
FirstIndexOf(entries, server) ==
    IF \E i \in 1..Len(entries) : entries[i].ip = server
    THEN CHOOSE i \in 1..Len(entries) :
            /\ entries[i].ip = server
            /\ \A j \in 1..(i - 1) : entries[j].ip # server
    ELSE 0

\* variant: the comparison that turns the response into a bool is inverted
SetResolution_Inverted(info, server, result) ==
    LET k == FirstIndexOf(info.dns_servers, server)
    IN IF k = 0 THEN info
       ELSE [info EXCEPT !.dns_servers[k].can_resolve = Some(result # "Success")]

\* variant: the loop has no break and no comparison, every entry gets the result
SetResolution_Every(info, server, result) ==
    [info EXCEPT !.dns_servers =
        [i \in 1..Len(info.dns_servers) |->
            [info.dns_servers[i] EXCEPT !.can_resolve = Some(result = "Success")]]]

\* the iter_mut loop that records one check result in place
SetResolution(info, server, result) ==
    LET k == FirstIndexOf(info.dns_servers, server)
    IN IF k = 0 THEN info
       ELSE [info EXCEPT !.dns_servers[k].can_resolve = Some(result = "Success")]

----------------------------------------------------------------------------
\* Aggregation of messages in App::run

\* variant: a DNSInfo without servers keeps the servers already stored
ApplyMessage_Merges(info, message) ==
    CASE message.tag = "LocalInfo" -> [info EXCEPT !.local_info = message.val]
      [] message.tag = "DNSInfo" ->
            [info EXCEPT !.dns_info =
                IF message.val.dns_servers = <<>>
                THEN [message.val EXCEPT !.dns_servers = info.dns_info.dns_servers]
                ELSE message.val]
      [] OTHER -> info

\* variant: a LocalInfo message also resets the DNS column
ApplyMessage_ResetsOther(info, message) ==
    CASE message.tag = "LocalInfo" ->
            [info EXCEPT !.local_info = message.val, !.dns_info = DefaultDNSInfo]
      [] message.tag = "DNSInfo" -> [info EXCEPT !.dns_info = message.val]
      [] OTHER -> info

ApplyMessage(info, message) ==
    CASE message.tag = "LocalInfo" -> [info EXCEPT !.local_info = message.val]
      [] message.tag = "DNSInfo" -> [info EXCEPT !.dns_info = message.val]
      [] OTHER -> info

RECURSIVE ApplyAll(_, _)
ApplyAll(info, messages) ==
    IF messages = <<>> THEN info
    ELSE ApplyAll(ApplyMessage(info, Head(messages)), Tail(messages))

CountDNS(messages) == Cardinality({i \in 1..Len(messages) : messages[i].tag = "DNSInfo"})

----------------------------------------------------------------------------
\* Rendering

RenderDnsInfo(info) ==
    IF info.can_fetch = None THEN "Fetching list..."
    ELSE IF info.can_fetch = Some(FALSE) THEN "Failed to get list."
    ELSE IF Len(info.dns_servers) = 0 THEN "No DNS servers found."
    ELSE "Servers:"

RenderFrame ==
    IF stage = "PickInterface"
    THEN [screen |-> "PickInterface", hover |-> interface_hover_index, dns |-> ""]
    ELSE [screen |-> "Running", hover |-> 0, dns |-> RenderDnsInfo(network_info.dns_info)]

NoFrame == [screen |-> "None", hover |-> 0, dns |-> ""]

\* get_dns_servers has not been called yet
ConfigUnread == [result |-> "unread", servers |-> <<>>]

\* get_dns_servers returned Err(())
ConfigErr == [result |-> "Err", servers |-> <<>>]

\* get_dns_servers returned Ok(servers)
ConfigOk(servers) == [result |-> "Ok", servers |-> servers]

----------------------------------------------------------------------------

Init ==
    /\ interfaces \in HostInterfaceLists
    /\ mainpc = "main"
    /\ exit = FALSE
    /\ stage = "PickInterface"
    /\ interface_list = <<>>
    /\ interface_hover_index = 0
    /\ chosen_interface = None
    /\ rx = None
    /\ rx_dropped = FALSE
    /\ chan = <<>>
    /\ network_info = DefaultNetworkInfo
    /\ frame = NoFrame
    /\ last_key = "none"
    /\ local_pc = "unspawned"
    /\ dns_pc = "unspawned"
    /\ dns_servers = <<>>
    /\ dns_info = DefaultDNSInfo
    /\ dns_idx = 0
    /\ local_sent = <<>>
    /\ dns_sent = <<>>
    /\ dns_config = ConfigUnread
    /\ dns_lookup = "none"
    /\ dns_checked = <<>>
    /\ dns_elapsed = "none"
    /\ dns_applied = 0
    /\ spawned = [local |-> 0, dns |-> 0]
    /\ channels_created = 0

----------------------------------------------------------------------------
\* main

\* variant: the single-interface shortcut sets the stage but not the choice
Main_ForgetsChosen ==
    /\ mainpc = "main"
    /\ IF Len(interfaces) = 0
       THEN /\ mainpc' = "bailed"
            /\ UNCHANGED <<interface_list, stage>>
       ELSE IF Len(interfaces) = 1
       THEN /\ interface_list' = interfaces
            /\ stage' = "Running"
            /\ mainpc' = "drain"
       ELSE /\ interface_list' = interfaces
            /\ mainpc' = "drain"
            /\ UNCHANGED stage
    /\ UNCHANGED <<interfaces, exit, interface_hover_index, chosen_interface, rx,
                   rx_dropped, chan, network_info, frame, last_key, dns_applied,
                   spawned, channels_created>>
    /\ UNCHANGED probeVars

\* variant: an empty interface list is handed to the picker like any other
Main_NoBail ==
    /\ mainpc = "main"
    /\ IF Len(interfaces) = 1
       THEN /\ chosen_interface' = Some(interfaces[1])
            /\ interface_list' = interfaces
            /\ stage' = "Running"
            /\ mainpc' = "drain"
       ELSE /\ interface_list' = interfaces
            /\ mainpc' = "drain"
            /\ UNCHANGED <<chosen_interface, stage>>
    /\ UNCHANGED <<interfaces, exit, interface_hover_index, rx, rx_dropped, chan,
                   network_info, frame, last_key, dns_applied, spawned,
                   channels_created>>
    /\ UNCHANGED probeVars

\* main: enumerate the interfaces, bail out on none, auto-select a single one
Main ==
    /\ mainpc = "main"
    /\ IF Len(interfaces) = 0
       THEN /\ mainpc' = "bailed"
            /\ UNCHANGED <<chosen_interface, interface_list, stage>>
       ELSE IF Len(interfaces) = 1
       THEN /\ chosen_interface' = Some(interfaces[1])
            /\ interface_list' = interfaces
            /\ stage' = "Running"
            /\ mainpc' = "drain"
       ELSE /\ interface_list' = interfaces
            /\ mainpc' = "drain"
            /\ UNCHANGED <<chosen_interface, stage>>
    /\ UNCHANGED <<interfaces, exit, interface_hover_index, rx, rx_dropped, chan,
                   network_info, frame, last_key, dns_applied, spawned,
                   channels_created>>
    /\ UNCHANGED probeVars

----------------------------------------------------------------------------
\* App::run, one loop iteration = RunDrain, RunDraw, then one handle_events outcome

\* variant: the drain waits on the channel with a blocking recv
RunDrain_Blocking ==
    /\ mainpc = "drain"
    /\ rx # None
    /\ chan # <<>>
    /\ network_info' = ApplyAll(network_info, chan)
    /\ dns_applied' = dns_applied + CountDNS(chan)
    /\ chan' = <<>>
    /\ mainpc' = "draw"
    /\ last_key' = "none"
    /\ UNCHANGED <<interfaces, rx, rx_dropped, frame, spawned, channels_created>>
    /\ UNCHANGED appVars
    /\ UNCHANGED probeVars

\* pull in any new data from the channel (try_iter never blocks)
RunDrain ==
    /\ mainpc = "drain"
    /\ IF rx # None
       THEN /\ network_info' = ApplyAll(network_info, chan)
            /\ dns_applied' = dns_applied + CountDNS(chan)
            /\ chan' = <<>>
       ELSE UNCHANGED <<network_info, dns_applied, chan>>
    /\ mainpc' = "draw"
    /\ last_key' = "none"
    /\ UNCHANGED <<interfaces, rx, rx_dropped, frame, spawned, channels_created>>
    /\ UNCHANGED appVars
    /\ UNCHANGED probeVars

\* terminal.draw(|frame| self.render_frame(frame)) succeeds
RunDraw ==
    /\ mainpc = "draw"
    /\ frame' = RenderFrame
    /\ mainpc' = "events"
    /\ UNCHANGED <<interfaces, rx, rx_dropped, chan, network_info, last_key,
                   dns_applied, spawned, channels_created>>
    /\ UNCHANGED appVars
    /\ UNCHANGED probeVars

\* terminal.draw returns an I/O error, which run propagates with `?`
RunDrawFails ==
    /\ mainpc = "draw"
    /\ mainpc' = "failed"
    /\ UNCHANGED <<interfaces, rx, rx_dropped, chan, network_info, frame, last_key,
                   dns_applied, spawned, channels_created>>
    /\ UNCHANGED appVars
    /\ UNCHANGED probeVars

\* variant: the loop condition does not look at exit
AfterEvents_IgnoresExit(quit) == "drain"

\* the `while !self.exit` test that follows a handle_events call returning Ok
AfterEvents(quit) == IF quit THEN "returned" ELSE "drain"

\* everything a handle_events outcome leaves alone
EventFrame ==
    /\ UNCHANGED <<interfaces, rx_dropped, chan, network_info, frame, dns_applied>>
    /\ UNCHANGED <<dns_servers, dns_info, dns_idx, local_sent, dns_sent, dns_config,
                   dns_lookup, dns_checked, dns_elapsed>>

NoSpawn == UNCHANGED <<rx, spawned, channels_created, local_pc, dns_pc>>

\* variant: only the local-info probe is spawned
InitialiseInterfaceFetching_OnlyLocal ==
    /\ rx' = Some("receive")
    /\ channels_created' = channels_created + 1
    /\ local_pc' = "start"
    /\ dns_pc' = dns_pc
    /\ spawned' = [local |-> spawned.local + 1, dns |-> spawned.dns]

\* App::initialise_interface_fetching: create the channel, spawn both probes
InitialiseInterfaceFetching ==
    /\ rx' = Some("receive")
    /\ channels_created' = channels_created + 1
    /\ local_pc' = "start"
    /\ dns_pc' = "start"
    /\ spawned' = [local |-> spawned.local + 1, dns |-> spawned.dns + 1]

\* event::poll returns false: no event within 50 ms
PollTimeout ==
    /\ mainpc = "events"
    /\ last_key' = "timeout"
    /\ mainpc' = AfterEvents(exit)
    /\ UNCHANGED appVars
    /\ NoSpawn
    /\ EventFrame

\* event::poll or event::read returns Err: handle_events fails and run returns Err
EventError ==
    /\ mainpc = "events"
    /\ last_key' = "error"
    /\ mainpc' = "failed"
    /\ UNCHANGED appVars
    /\ NoSpawn
    /\ EventFrame

\* an event that is not a key press
EventIgnored ==
    /\ mainpc = "events"
    /\ last_key' = "notkey"
    /\ mainpc' = AfterEvents(exit)
    /\ UNCHANGED appVars
    /\ NoSpawn
    /\ EventFrame

\* KeyCode::Char('q') | KeyCode::Char('Q') => self.exit()
KeyQuit ==
    /\ mainpc = "events"
    /\ last_key' = "q"
    /\ exit' = TRUE
    /\ mainpc' = AfterEvents(exit')
    /\ UNCHANGED <<stage, interface_list, interface_hover_index, chosen_interface>>
    /\ NoSpawn
    /\ EventFrame

\* KeyCode::Up
KeyUp ==
    /\ mainpc = "events"
    /\ last_key' = "Up"
    /\ IF stage = "PickInterface" /\ interface_hover_index > 0
       THEN interface_hover_index' = interface_hover_index - 1
       ELSE UNCHANGED interface_hover_index
    /\ mainpc' = AfterEvents(exit)
    /\ UNCHANGED <<exit, stage, interface_list, chosen_interface>>
    /\ NoSpawn
    /\ EventFrame

\* variant: the cap compares against the length instead of length - 1
KeyDown_OffByOne ==
    /\ mainpc = "events"
    /\ last_key' = "Down"
    /\ IF stage = "PickInterface" /\ interface_hover_index < Len(interface_list)
       THEN interface_hover_index' = interface_hover_index + 1
       ELSE UNCHANGED interface_hover_index
    /\ mainpc' = AfterEvents(exit)
    /\ UNCHANGED <<exit, stage, interface_list, chosen_interface>>
    /\ NoSpawn
    /\ EventFrame

\* KeyCode::Down
KeyDown ==
    /\ mainpc = "events"
    /\ last_key' = "Down"
    /\ IF stage = "PickInterface" /\ interface_hover_index < Len(interface_list) - 1
       THEN interface_hover_index' = interface_hover_index + 1
       ELSE UNCHANGED interface_hover_index
    /\ mainpc' = AfterEvents(exit)
    /\ UNCHANGED <<exit, stage, interface_list, chosen_interface>>
    /\ NoSpawn
    /\ EventFrame

\* variant: Enter is handled without testing the stage
KeyEnter_NoStageCheck ==
    /\ mainpc = "events"
    /\ last_key' = "Enter"
    /\ chosen_interface' = Some(interface_list[interface_hover_index + 1])
    /\ stage' = "Running"
    /\ InitialiseInterfaceFetching
    /\ mainpc' = AfterEvents(exit)
    /\ UNCHANGED <<exit, interface_list, interface_hover_index>>
    /\ EventFrame

\* KeyCode::Enter
KeyEnter ==
    /\ mainpc = "events"
    /\ last_key' = "Enter"
    /\ IF stage = "PickInterface"
       THEN /\ chosen_interface' = Some(interface_list[interface_hover_index + 1])
            /\ stage' = "Running"
            /\ InitialiseInterfaceFetching
       ELSE /\ UNCHANGED <<chosen_interface, stage>>
            /\ NoSpawn
    /\ mainpc' = AfterEvents(exit)
    /\ UNCHANGED <<exit, interface_list, interface_hover_index>>
    /\ EventFrame

\* any other key: `_ => {}`
KeyOther ==
    /\ mainpc = "events"
    /\ last_key' = "other"
    /\ mainpc' = AfterEvents(exit)
    /\ UNCHANGED appVars
    /\ NoSpawn
    /\ EventFrame

\* main returns (Ok or Err): app goes out of scope and the Receiver is dropped
DropApp ==
    /\ mainpc \in {"returned", "failed", "bailed"}
    /\ mainpc' = "dropped"
    /\ rx_dropped' = TRUE
    /\ UNCHANGED <<interfaces, rx, chan, network_info, frame, last_key, dns_applied,
                   spawned, channels_created>>
    /\ UNCHANGED appVars
    /\ UNCHANGED probeVars

\* the process exits; the probe threads are abandoned where they are
ProcessExit ==
    /\ mainpc = "dropped"
    /\ mainpc' = "exited"
    /\ UNCHANGED <<interfaces, rx, rx_dropped, chan, network_info, frame, last_key,
                   dns_applied, spawned, channels_created>>
    /\ UNCHANGED appVars
    /\ UNCHANGED probeVars

----------------------------------------------------------------------------
\* Probe threads.  They run until the process exits.

\* What pnet::datalink::interfaces() shows for the chosen interface when a
\* probe looks it up: present with an address, present with an empty ips
\* list, or not listed.
LookupOutcomes == {"ip", "noips", "absent"}

\* Outcomes of get_default_gateway.
GatewayOutcomes == {"Ok", "Err"}

\* What can happen inside one check_dns_resolution call.
TransportOutcomes == {"SocketError", "BindError", "SetTimeoutError", "ConnectError",
                      "SendError", "RecvError", "MalformedReply", "RcodeError", "NoError"}

\* How long the check just made took, against 50 ms, when another check follows
\* it; the loop adds no wait of its own before that next check_dns_resolution call.
CheckElapsed(nextpc) == IF nextpc = "check" THEN {"under50", "atleast50"} ELSE {"none"}

CheckDnsResolution(outcome) ==
    IF outcome \in {"SocketError", "BindError"} THEN "CannotBind"
    ELSE IF outcome = "NoError" THEN "Success"
    ELSE "Failure"

LocalInfoOf(gw) ==
    [local_ip |-> Some("ip"), subnet_mask |-> Some("prefix"),
     gateway |-> IF gw = "Ok" THEN Some("gateway") ELSE None]

\* fetch_local::fetch_and_return_local_info
LocalProbe ==
    /\ local_pc = "start"
    /\ mainpc # "exited"
    /\ \E lookup \in LookupOutcomes, gw \in GatewayOutcomes :
         CASE lookup = "absent" ->
                \* no interface matches: the loop ends without a send
                /\ local_pc' = "done"
                /\ UNCHANGED <<chan, local_sent>>
           [] lookup = "noips" ->
                \* iface.ips[0] on an empty vector panics
                /\ local_pc' = "panicked"
                /\ UNCHANGED <<chan, local_sent>>
           [] OTHER ->
                IF rx_dropped
                THEN \* tx.send(..).unwrap() on a disconnected channel panics
                     /\ local_pc' = "panicked"
                     /\ UNCHANGED <<chan, local_sent>>
                ELSE /\ chan' = Append(chan, LocalInfoMessage(LocalInfoOf(gw)))
                     /\ local_sent' = Append(local_sent, LocalInfoOf(gw))
                     /\ local_pc' = "done"
    /\ UNCHANGED <<interfaces, mainpc, rx, rx_dropped, network_info, frame, last_key,
                   dns_applied, spawned, channels_created>>
    /\ UNCHANGED appVars
    /\ UNCHANGED <<dns_pc, dns_servers, dns_info, dns_idx, dns_sent, dns_config,
                   dns_lookup, dns_checked, dns_elapsed>>

\* tx.send(FetchedDataMessage::DNSInfo(info)).unwrap(), then continue at nextpc
DnsSend(info, nextpc) ==
    IF rx_dropped
    THEN /\ dns_pc' = "panicked"
         /\ UNCHANGED <<chan, dns_sent>>
    ELSE /\ chan' = Append(chan, DNSInfoMessage(info))
         /\ dns_sent' = Append(dns_sent, info)
         /\ dns_pc' = nextpc

\* everything a step of the DNS probe leaves alone
DnsFrame ==
    /\ UNCHANGED <<interfaces, mainpc, rx, rx_dropped, network_info, frame, last_key,
                   dns_applied, spawned, channels_created>>
    /\ UNCHANGED appVars
    /\ UNCHANGED <<local_pc, local_sent>>

\* variant: the Err arm sends but does not return
DnsReadConfig_FallsThrough ==
    /\ dns_pc = "start"
    /\ mainpc # "exited"
    /\ \/ /\ dns_config' = ConfigErr
          /\ DnsSend(CannotFetchInfo, "lookup")
          /\ UNCHANGED <<dns_servers, dns_info, dns_idx>>
       \/ \E servers \in ConfigServerLists :
            /\ dns_config' = ConfigOk(servers)
            /\ dns_servers' = servers
            /\ dns_pc' = "lookup"
            /\ UNCHANGED <<chan, dns_sent, dns_info, dns_idx>>
    /\ UNCHANGED <<dns_lookup, dns_checked, dns_elapsed>>
    /\ DnsFrame

\* fetch_and_return_dns_info: get_dns_servers and the match on its result
DnsReadConfig ==
    /\ dns_pc = "start"
    /\ mainpc # "exited"
    /\ \/ /\ dns_config' = ConfigErr
          /\ DnsSend(CannotFetchInfo, "done")
          /\ UNCHANGED <<dns_servers, dns_info, dns_idx>>
       \/ \E servers \in ConfigServerLists :
            /\ dns_config' = ConfigOk(servers)
            /\ dns_servers' = servers
            /\ dns_pc' = "lookup"
            /\ UNCHANGED <<chan, dns_sent, dns_info, dns_idx>>
    /\ UNCHANGED <<dns_lookup, dns_checked, dns_elapsed>>
    /\ DnsFrame

\* variant: the list is not sent before the checks start
DnsLookup_NoFirstSend ==
    /\ dns_pc = "lookup"
    /\ mainpc # "exited"
    /\ \E lookup \in LookupOutcomes :
         CASE lookup = "absent" ->
                /\ dns_lookup' = "Err"
                /\ DnsSend(CannotBindInfo, "done")
                /\ UNCHANGED <<dns_servers, dns_info, dns_idx>>
           [] lookup = "noips" ->
                /\ dns_lookup' = "panic"
                /\ dns_pc' = "panicked"
                /\ UNCHANGED <<chan, dns_sent, dns_servers, dns_info, dns_idx>>
           [] OTHER ->
                /\ dns_lookup' = "Ok"
                /\ dns_servers' = Dedup(dns_servers)
                /\ dns_info' = InitialDNSInfo(dns_servers')
                /\ dns_idx' = 1
                /\ dns_pc' = IF Len(dns_servers') = 0 THEN "done" ELSE "check"
                /\ UNCHANGED <<chan, dns_sent>>
    /\ UNCHANGED <<dns_config, dns_checked, dns_elapsed>>
    /\ DnsFrame

\* fetch_and_return_dns_info: get_interface_ip, deduplication, first send
DnsLookup ==
    /\ dns_pc = "lookup"
    /\ mainpc # "exited"
    /\ \E lookup \in LookupOutcomes :
         CASE lookup = "absent" ->
                /\ dns_lookup' = "Err"
                /\ DnsSend(CannotBindInfo, "done")
                /\ UNCHANGED <<dns_servers, dns_info, dns_idx>>
           [] lookup = "noips" ->
                \* iface.ips[0] on an empty vector panics
                /\ dns_lookup' = "panic"
                /\ dns_pc' = "panicked"
                /\ UNCHANGED <<chan, dns_sent, dns_servers, dns_info, dns_idx>>
           [] OTHER ->
                /\ dns_lookup' = "Ok"
                /\ dns_servers' = Dedup(dns_servers)
                /\ dns_info' = InitialDNSInfo(dns_servers')
                /\ dns_idx' = 1
                /\ DnsSend(dns_info', IF Len(dns_servers') = 0 THEN "done" ELSE "check")
    /\ UNCHANGED <<dns_config, dns_checked, dns_elapsed>>
    /\ DnsFrame

\* variant: a server whose check failed is queried again
DnsCheck_Requeries ==
    /\ dns_pc = "check"
    /\ mainpc # "exited"
    /\ \E outcome \in TransportOutcomes :
         LET server == dns_servers[dns_idx]
             can_resolve == CheckDnsResolution(outcome)
         IN /\ dns_checked' = Append(dns_checked, [server |-> server, response |-> can_resolve])
            /\ IF can_resolve = "CannotBind"
               THEN /\ DnsSend(CannotBindInfo, "done")
                    /\ UNCHANGED <<dns_info, dns_idx>>
               ELSE /\ dns_info' = SetResolution(dns_info, server, can_resolve)
                    /\ dns_idx' = IF can_resolve = "Failure" THEN dns_idx ELSE dns_idx + 1
                    /\ DnsSend(dns_info', IF dns_idx' > Len(dns_servers) THEN "done" ELSE "check")
    /\ dns_elapsed' \in CheckElapsed(dns_pc')
    /\ UNCHANGED <<dns_servers, dns_config, dns_lookup>>
    /\ DnsFrame

\* variant: a failed check ends the loop
DnsCheck_StopsOnFailure ==
    /\ dns_pc = "check"
    /\ mainpc # "exited"
    /\ \E outcome \in TransportOutcomes :
         LET server == dns_servers[dns_idx]
             can_resolve == CheckDnsResolution(outcome)
         IN /\ dns_checked' = Append(dns_checked, [server |-> server, response |-> can_resolve])
            /\ IF can_resolve = "CannotBind"
               THEN /\ DnsSend(CannotBindInfo, "done")
                    /\ UNCHANGED <<dns_info, dns_idx>>
               ELSE /\ dns_info' = SetResolution(dns_info, server, can_resolve)
                    /\ dns_idx' = dns_idx + 1
                    /\ DnsSend(dns_info', IF dns_idx = Len(dns_servers) \/ can_resolve = "Failure"
                                          THEN "done" ELSE "check")
    /\ dns_elapsed' \in CheckElapsed(dns_pc')
    /\ UNCHANGED <<dns_servers, dns_config, dns_lookup>>
    /\ DnsFrame

\* fetch_and_return_dns_info: one iteration of `for server in dns_servers`
DnsCheck ==
    /\ dns_pc = "check"
    /\ mainpc # "exited"
    /\ \E outcome \in TransportOutcomes :
         LET server == dns_servers[dns_idx]
             can_resolve == CheckDnsResolution(outcome)
         IN /\ dns_checked' = Append(dns_checked, [server |-> server, response |-> can_resolve])
            /\ IF can_resolve = "CannotBind"
               THEN /\ DnsSend(CannotBindInfo, "done")
                    /\ UNCHANGED <<dns_info, dns_idx>>
               ELSE /\ dns_info' = SetResolution(dns_info, server, can_resolve)
                    /\ dns_idx' = dns_idx + 1
                    /\ DnsSend(dns_info', IF dns_idx = Len(dns_servers) THEN "done" ELSE "check")
    /\ dns_elapsed' \in CheckElapsed(dns_pc')
    /\ UNCHANGED <<dns_servers, dns_config, dns_lookup>>
    /\ DnsFrame

----------------------------------------------------------------------------

Next ==
    \/ Main
    \/ RunDrain
    \/ RunDraw
    \/ RunDrawFails
    \/ PollTimeout
    \/ EventError
    \/ EventIgnored
    \/ KeyQuit
    \/ KeyUp
    \/ KeyDown
    \/ KeyEnter
    \/ KeyOther
    \/ DropApp
    \/ ProcessExit
    \/ LocalProbe
    \/ DnsReadConfig
    \/ DnsLookup
    \/ DnsCheck

Spec == Init /\ [][Next]_vars

\* The render loop runs on the main thread and each probe on its own OS
\* thread, so every enabled step of each of them is eventually taken.
RunStep == RunDrain \/ RunDraw \/ PollTimeout \/ EventIgnored \/ KeyQuit \/ KeyUp
           \/ KeyDown \/ KeyEnter \/ KeyOther

FairSpec ==
    /\ Spec
    /\ WF_vars(Main)
    /\ WF_vars(RunStep)
    /\ WF_vars(LocalProbe)
    /\ WF_vars(DnsReadConfig)
    /\ WF_vars(DnsLookup)
    /\ WF_vars(DnsCheck)

\* The DNS probe thread alone is scheduled fairly: each of its calls returns
\* (recv is bounded by the read timeout), whatever the UI does.
DnsStep == DnsReadConfig \/ DnsLookup \/ DnsCheck

DnsFairSpec == Spec /\ WF_vars(DnsStep)

----------------------------------------------------------------------------
\* The deduplication of fetch_and_return_dns_info on its own, on longer lists
\* than the probe is run with above.

DedupInputs == SeqsUpTo(1..DedupAddrs, DedupMaxLen)

DedupInit ==
    /\ interfaces = <<>>
    /\ mainpc = "main"
    /\ exit = FALSE
    /\ stage = "PickInterface"
    /\ interface_list = <<>>
    /\ interface_hover_index = 0
    /\ chosen_interface = None
    /\ rx = None
    /\ rx_dropped = FALSE
    /\ chan = <<>>
    /\ network_info = DefaultNetworkInfo
    /\ frame = NoFrame
    /\ last_key = "none"
    /\ local_pc = "unspawned"
    /\ dns_pc = "lookup"
    /\ \E servers \in DedupInputs :
         /\ dns_config = ConfigOk(servers)
         /\ dns_servers = servers
    /\ dns_info = DefaultDNSInfo
    /\ dns_idx = 0
    /\ local_sent = <<>>
    /\ dns_sent = <<>>
    /\ dns_lookup = "Ok"
    /\ dns_checked = <<>>
    /\ dns_elapsed = "none"
    /\ dns_applied = 0
    /\ spawned = [local |-> 0, dns |-> 0]
    /\ channels_created = 0

\* eliminate duplicates while preserving order, and build dns_info from the result
DedupApply ==
    /\ dns_pc = "lookup"
    /\ dns_servers' = Dedup(dns_servers)
    /\ dns_info' = InitialDNSInfo(dns_servers')
    /\ dns_idx' = 1
    /\ dns_pc' = "check"
    /\ UNCHANGED <<interfaces, mainpc, rx, rx_dropped, chan, network_info, frame,
                   last_key, local_pc, local_sent, dns_sent, dns_config, dns_lookup,
                   dns_checked, dns_elapsed, dns_applied, spawned, channels_created>>
    /\ UNCHANGED appVars

DedupNext == DedupApply

DedupSpec == DedupInit /\ [][DedupNext]_vars

----------------------------------------------------------------------------
\* The drain of App::run on its own, on every category of FetchedDataMessage,
\* those included that no probe sends yet.

\* a message of a category that run matches with `_ => {}`
OtherMessage(tag) == [tag |-> tag, val |-> <<>>]

ApplyMessages ==
    {LocalInfoMessage(LocalInfoOf(gw)) : gw \in GatewayOutcomes}
    \cup {DNSInfoMessage(info) : info \in {CannotFetchInfo, InitialDNSInfo(<<1>>)}}
    \cup {OtherMessage(tag) : tag \in {"InternetInfo", "Traceroute"}}

ApplySnapshots ==
    {[local_info |-> l, dns_info |-> d] :
        l \in {DefaultLocalInfo, LocalInfoOf("Ok")},
        d \in {DefaultDNSInfo, InitialDNSInfo(<<1, 2>>)}}

ApplyInit ==
    /\ interfaces = <<1, 2>>
    /\ mainpc = "drain"
    /\ exit = FALSE
    /\ stage = "Running"
    /\ interface_list = interfaces
    /\ interface_hover_index \in {0, 1}
    /\ chosen_interface = Some(interfaces[interface_hover_index + 1])
    /\ rx = Some("receive")
    /\ rx_dropped = FALSE
    /\ chan \in SeqsUpTo(ApplyMessages, ApplyMaxLen)
    /\ network_info \in ApplySnapshots
    /\ frame = NoFrame
    /\ last_key = "none"
    /\ local_pc = "done"
    /\ dns_pc = "done"
    /\ dns_servers = <<>>
    /\ dns_info = DefaultDNSInfo
    /\ dns_idx = 0
    /\ local_sent = <<>>
    /\ dns_sent = <<>>
    /\ dns_config = ConfigUnread
    /\ dns_lookup = "none"
    /\ dns_checked = <<>>
    /\ dns_elapsed = "none"
    /\ dns_applied = 0
    /\ spawned = [local |-> 1, dns |-> 1]
    /\ channels_created = 1

ApplyNext == RunDrain

ApplySpec == ApplyInit /\ [][ApplyNext]_vars

TypeOK ==
    /\ mainpc \in {"main", "drain", "draw", "events", "returned", "failed", "bailed",
                   "dropped", "exited"}
    /\ stage \in {"PickInterface", "Running"}
    /\ exit \in BOOLEAN
    /\ local_pc \in {"unspawned", "start", "done", "panicked"}
    /\ dns_pc \in {"unspawned", "start", "lookup", "check", "done", "panicked"}
    /\ dns_elapsed \in {"none", "under50", "atleast50"}

----------------------------------------------------------------------------
\* Properties

LoopPcs == {"drain", "draw", "events"}

\* the step of the main thread in which handle_events ends with outcome k
EventStep(k) == mainpc = "events" /\ mainpc' # "events" /\ last_key' = k

\* C1: when exactly one interface is available at startup, the session enters
\* the render loop in Running with that interface chosen, the result channel
\* created and one probe per category spawned.
C1_SingleInterfaceStartsProbing ==
    (Len(interfaces) = 1 /\ mainpc \in LoopPcs) =>
        /\ stage = "Running"
        /\ chosen_interface = Some(interfaces[1])
        /\ rx # None
        /\ channels_created = 1
        /\ spawned = [local |-> 1, dns |-> 1]

\* C2: in every reachable state the chosen interface is set if and only if
\* the stage is Running.
C2_ChosenIffRunning == (chosen_interface # None) <=> (stage = "Running")

C2_Witness ==
    /\ mainpc = "drain"
    /\ last_key = "Enter"
    /\ frame.screen = "PickInterface"
    /\ Len(interface_list) > 1
    /\ stage = "Running"
    /\ chosen_interface = Some(interface_list[interface_hover_index + 1])

\* C3: for a non-empty interface list the hover index stays within
\* [0, length-1]; Up at index 0 and Down at index length-1 leave it unchanged,
\* and with a single-element list it never changes.
C3_HoverInBounds ==
    /\ [](Len(interface_list) > 0 =>
            interface_hover_index \in 0..(Len(interface_list) - 1))
    /\ [][/\ (EventStep("Up") /\ interface_hover_index = 0) =>
                interface_hover_index' = 0
          /\ (EventStep("Down") /\ interface_hover_index = Len(interface_list) - 1) =>
                interface_hover_index' = interface_hover_index
          /\ Len(interface_list) = 1 => interface_hover_index' = interface_hover_index
         ]_vars

\* Down was pressed while the painted list showed the hover on the last entry.
C3_Witness ==
    /\ mainpc = "drain"
    /\ last_key = "Down"
    /\ frame.screen = "PickInterface"
    /\ Len(interface_list) > 1
    /\ frame.hover = Len(interface_list) - 1
    /\ interface_hover_index = Len(interface_list) - 1

\* C4: Enter while PickInterface sets chosen interface = available[hover],
\* moves the stage to Running, creates the channel and spawns one probe per
\* category; no later key event creates another channel or spawns another probe.
C4_ConfirmSpawnsOnce ==
    /\ [][(EventStep("Enter") /\ stage = "PickInterface") =>
            /\ chosen_interface' = Some(interface_list[interface_hover_index + 1])
            /\ stage' = "Running"
            /\ rx' # None
            /\ channels_created' = 1
            /\ spawned' = [local |-> 1, dns |-> 1]
            /\ local_pc' = "start"
            /\ dns_pc' = "start"
         ]_vars
    /\ [](channels_created <= 1 /\ spawned.local <= 1 /\ spawned.dns <= 1)
    /\ [][(spawned.local = 1 \/ spawned.dns = 1 \/ channels_created = 1) =>
            UNCHANGED <<spawned, channels_created, rx>>]_vars

\* after the Confirm the user kept pressing keys and both probes ran
C4_Witness ==
    /\ Len(interface_list) > 1
    /\ interface_hover_index > 0
    /\ chosen_interface = Some(interface_list[interface_hover_index + 1])
    /\ stage = "Running"
    /\ mainpc = "drain"
    /\ last_key \in {"Up", "Down", "Enter", "other"}
    /\ frame.screen = "Running"
    /\ spawned = [local |-> 1, dns |-> 1]
    /\ channels_created = 1
    /\ local_pc = "done"
    /\ dns_pc = "done"

\* C5: once Running the stage never returns to PickInterface, and an Enter
\* received while Running changes nothing: stage, chosen interface, hover
\* index, channel and probes are as before.
C5_RunningIsTerminal ==
    [][/\ stage = "Running" => stage' = "Running"
       /\ (EventStep("Enter") /\ stage = "Running") =>
            UNCHANGED <<stage, chosen_interface, interface_hover_index, interface_list,
                        exit, rx, chan, channels_created, spawned, local_pc, dns_pc,
                        network_info>>
      ]_vars

\* Enter was pressed while the painted screen was the Running dashboard.
C5_Witness ==
    /\ mainpc = "drain"
    /\ last_key = "Enter"
    /\ frame.screen = "Running"
    /\ stage = "Running"
    /\ spawned = [local |-> 1, dns |-> 1]

DNSPayloads(messages) ==
    LET dns == SelectSeq(messages, LAMBDA m : m.tag = "DNSInfo")
    IN [i \in 1..Len(dns) |-> dns[i].val]

\* C6: after the render loop has applied N of the DNS messages the probe
\* emitted, the stored DNS sub-snapshot equals the Nth emitted message, and the
\* messages still in the channel are the following ones in emission order.
C6_LastWriterWins ==
    /\ dns_applied <= Len(dns_sent)
    /\ network_info.dns_info =
         IF dns_applied = 0 THEN DefaultDNSInfo ELSE dns_sent[dns_applied]
    /\ rx # None =>
         DNSPayloads(chan) = SubSeq(dns_sent, dns_applied + 1, Len(dns_sent))

C6_Witness ==
    /\ dns_applied >= 2
    /\ Len(dns_sent) > dns_applied
    /\ dns_sent[dns_applied] # dns_sent[dns_applied - 1]
    /\ network_info.dns_info = dns_sent[dns_applied]

\* C7: every probe that has stopped, normally or by failure, has emitted at
\* least one message onto the result channel before stopping.
C7_StoppedProbeHasEmitted ==
    /\ local_pc \in {"done", "panicked"} => Len(local_sent) > 0
    /\ dns_pc \in {"done", "panicked"} => Len(dns_sent) > 0

\* C8: no failure inside a probe ends the probe thread with a panic.
C8_NoProbePanics == local_pc # "panicked" /\ dns_pc # "panicked"

\* C9: the snapshot is mutated monotonically: no field that holds a concrete
\* value reverts to unknown, the DNS server list is never lost, and a server
\* shown with a result keeps its entry.
C9_SnapshotMonotone ==
    [][LET old == network_info
           new == network_info'
       IN /\ \A f \in {"local_ip", "subnet_mask", "gateway"} :
                old.local_info[f] # None => new.local_info[f] # None
          /\ \A f \in {"can_fetch", "can_bind_interface"} :
                old.dns_info[f] # None => new.dns_info[f] # None
          /\ Len(new.dns_info.dns_servers) >= Len(old.dns_info.dns_servers)
          /\ \A i \in 1..Len(old.dns_info.dns_servers) :
                /\ new.dns_info.dns_servers[i].ip = old.dns_info.dns_servers[i].ip
                /\ old.dns_info.dns_servers[i].can_resolve # None =>
                     new.dns_info.dns_servers[i].can_resolve # None
      ]_vars

\* C10: whenever the session is Running and the render loop keeps ticking,
\* the DNS sub-snapshot eventually leaves the pending state.
C10_DnsLeavesPending ==
    (stage = "Running" /\ mainpc \in LoopPcs) ~>
        (network_info.dns_info.can_fetch # None \/ mainpc \notin LoopPcs)


\* the probe function has ended: it returned or it panicked
DnsStopped == dns_pc \in {"done", "panicked"}

\* C11: when the DNS configuration cannot be read or parsed, the DNS probe
\* emits exactly one message, {can_fetch = Some(false), no servers}, returns,
\* and no further DNS message follows; the one exception is a probe whose send
\* comes after the Receiver was dropped, which emits nothing.
C11_ConfigUnreadableOneMessage ==
    dns_config = ConfigErr =>
        /\ DnsStopped
        /\ dns_lookup = "none"
        /\ dns_checked = <<>>
        /\ dns_pc = "done" =>
             /\ Len(dns_sent) = 1
             /\ dns_sent[1].can_fetch = Some(FALSE)
             /\ dns_sent[1].can_bind_interface = None
             /\ dns_sent[1].dns_servers = <<>>
        /\ dns_pc = "panicked" => (rx_dropped /\ dns_sent = <<>>)

\* the single message was applied and painted as the failed state
C11_Witness ==
    /\ dns_config = ConfigErr
    /\ dns_pc = "done"
    /\ Len(dns_sent) = 1
    /\ dns_applied = 1
    /\ network_info.dns_info.can_fetch = Some(FALSE)
    /\ frame.dns = "Failed to get list."
    /\ mainpc \in LoopPcs

AvailableNoServers == [can_fetch |-> Some(TRUE), can_bind_interface |-> None, dns_servers |-> <<>>]

FailedEntries(info) ==
    {i \in 1..Len(info.dns_servers) : info.dns_servers[i].can_resolve = Some(FALSE)}

FailureResponses == {i \in 1..Len(dns_checked) : dns_checked[i].response = "Failure"}

BindFailed ==
    \/ dns_lookup = "Err"
    \/ (dns_checked # <<>> /\ dns_checked[Len(dns_checked)].response = "CannotBind")

\* C13: a bind failure is terminal and distinct from a per-server failure:
\* the probe's last message carries can_bind_interface = Some(false), it is the
\* only message that does, it marks no server as failed, no check follows it,
\* and it differs from the message of a configuration-read failure, which
\* leaves can_bind_interface at None.
C13_BindFailureTerminal ==
    /\ BindFailed =>
         /\ DnsStopped
         /\ dns_pc = "done" =>
              LET last == dns_sent[Len(dns_sent)]
              IN /\ last.can_bind_interface = Some(FALSE)
                 /\ FailedEntries(last) = {}
                 /\ {i \in 1..Len(dns_sent) : dns_sent[i].can_bind_interface # None}
                      = {Len(dns_sent)}
         /\ dns_pc = "panicked" =>
              /\ rx_dropped
              /\ \A i \in 1..Len(dns_sent) : dns_sent[i].can_bind_interface = None
    /\ \A i \in 1..(Len(dns_checked) - 1) : dns_checked[i].response # "CannotBind"
    /\ dns_lookup = "Err" => dns_checked = <<>>
    /\ \A i \in 1..Len(dns_sent) :
         Cardinality(FailedEntries(dns_sent[i])) <= Cardinality(FailureResponses)
    /\ dns_config = ConfigErr =>
         \A i \in 1..Len(dns_sent) : dns_sent[i].can_bind_interface = None

\* a server failed, then the bind for the next one failed, and the render
\* loop has applied the terminal message
C13_Witness ==
    /\ Len(dns_checked) = 2
    /\ dns_checked[1].response = "Failure"
    /\ dns_checked[2].response = "CannotBind"
    /\ dns_pc = "done"
    /\ dns_applied = Len(dns_sent)
    /\ network_info.dns_info.can_bind_interface = Some(FALSE)


CheckedServers == [i \in 1..Len(dns_checked) |-> dns_checked[i].server]

NoDuplicates(list) == \A i, j \in 1..Len(list) : list[i] = list[j] => i = j

\* C14: a server's resolution failure is recorded as failure for that server
\* only and the probe goes on to the next server; the servers checked are a
\* prefix of the deduplicated list, so each is checked at most once and in
\* list order, and after the last one the probe stops and checks nothing more.
C14_FailureIsPerServer ==
    /\ [](/\ dns_lookup # "Ok" => dns_checked = <<>>
          /\ dns_lookup = "Ok" =>
               /\ NoDuplicates(dns_servers)
               /\ Len(dns_checked) <= Len(dns_servers)
               /\ CheckedServers = SubSeq(dns_servers, 1, Len(dns_checked))
               /\ (dns_pc = "done" /\ ~BindFailed) => Len(dns_checked) = Len(dns_servers))
    /\ [][LET k == Len(dns_checked) + 1
          IN (Len(dns_checked') = k /\ dns_checked'[k].response = "Failure") =>
               /\ dns_checked'[k].server = dns_servers[k]
               /\ dns_info'.dns_servers[k].can_resolve = Some(FALSE)
               /\ \A j \in 1..Len(dns_servers) :
                    j # k => dns_info'.dns_servers[j] = dns_info.dns_servers[j]
               /\ dns_info'.can_fetch = Some(TRUE)
               /\ ~rx_dropped =>
                    /\ dns_sent' = Append(dns_sent, dns_info')
                    /\ dns_pc' = IF k < Len(dns_servers) THEN "check" ELSE "done"
         ]_vars
    /\ [][DnsStopped => UNCHANGED <<dns_checked, dns_pc>>]_vars

\* the first server failed, the second was still checked, and the probe returned
C14_Witness ==
    /\ Len(dns_servers) = 2
    /\ Len(dns_checked) = 2
    /\ dns_checked[1].response = "Failure"
    /\ dns_checked[2].response = "Failure"
    /\ dns_pc = "done"
    /\ FailedEntries(dns_sent[Len(dns_sent) - 1]) = {1}
    /\ FailedEntries(dns_sent[Len(dns_sent)]) = {1, 2}

FirstFailedSecondSucceeded ==
    /\ dns_lookup = "Ok"
    /\ Len(dns_config.servers) = 2
    /\ Len(dns_checked) = 2
    /\ dns_checked[1].response = "Failure"
    /\ dns_checked[2].response = "Success"
    /\ dns_pc = "done"

\* C15: with two configured servers where the first check times out and the
\* second succeeds, the last emitted snapshot, and the stored one once it is
\* applied, is [{server1, failure}, {server2, success}] in configuration order.
C15_FailureThenSuccess ==
    /\ CheckDnsResolution("RecvError") = "Failure"
    /\ CheckDnsResolution("NoError") = "Success"
    /\ FirstFailedSecondSucceeded =>
         LET final == [can_fetch |-> Some(TRUE), can_bind_interface |-> None,
                       dns_servers |->
                           <<[ip |-> dns_config.servers[1], can_resolve |-> Some(FALSE)],
                             [ip |-> dns_config.servers[2], can_resolve |-> Some(TRUE)]>>]
         IN /\ dns_config.servers = dns_servers
            /\ dns_sent[Len(dns_sent)] = final
            /\ dns_applied = Len(dns_sent) => network_info.dns_info = final

C15_Witness ==
    /\ FirstFailedSecondSucceeded
    /\ dns_applied = Len(dns_sent)
    /\ frame.dns = "Servers:"
    /\ network_info.dns_info.dns_servers[1].can_resolve = Some(FALSE)
    /\ network_info.dns_info.dns_servers[2].can_resolve = Some(TRUE)


\* position of the first occurrence of x in list
FirstPos(list, x) == CHOOSE i \in 1..Len(list) :
                        list[i] = x /\ \A j \in 1..(i - 1) : list[j] # x

\* C16: the deduplication keeps the first occurrence of each address in
\* first-seen order and is idempotent: the output has no duplicates and the
\* same set of addresses as the input, applying it again changes nothing, and
\* [a, b, a, c, b] gives [a, b, c].
C16_DedupFirstSeenIdempotent ==
    dns_pc = "check" =>
        LET input == dns_config.servers
            output == dns_servers
        IN /\ NoDuplicates(output)
           /\ {output[i] : i \in 1..Len(output)} = {input[i] : i \in 1..Len(input)}
           /\ \A i, j \in 1..Len(output) :
                i < j => FirstPos(input, output[i]) < FirstPos(input, output[j])
           /\ Dedup(output) = output
           /\ [i \in 1..Len(output) |-> dns_info.dns_servers[i].ip] = output
           /\ input = <<1, 2, 1, 3, 2>> => output = <<1, 2, 3>>

C16_Witness ==
    /\ dns_pc = "check"
    /\ dns_config.servers = <<1, 2, 1, 3, 2>>
    /\ dns_servers = <<1, 2, 3>>


UnavailableHasNoServers(info) == info.can_fetch = Some(FALSE) => info.dns_servers = <<>>

\* C17: in every DNS message the probe emits (sent so far, or still in the
\* channel) and in the stored DNS sub-snapshot, a fetch outcome of unavailable
\* comes with an empty server list.
C17_UnavailableHasNoServers ==
    /\ \A i \in 1..Len(dns_sent) : UnavailableHasNoServers(dns_sent[i])
    /\ \A i \in 1..Len(chan) :
         chan[i].tag = "DNSInfo" => UnavailableHasNoServers(chan[i].val)
    /\ UnavailableHasNoServers(network_info.dns_info)

\* the servers were announced and stored, then a bind failure withdrew them
C17_Witness ==
    /\ Len(dns_sent) = 3
    /\ dns_sent[2].dns_servers # <<>>
    /\ dns_sent[3].can_fetch = Some(FALSE)
    /\ dns_applied = 3
    /\ network_info.dns_info.can_fetch = Some(FALSE)
    /\ frame.dns = "Failed to get list."


\* C18: an input-decoding (event poll/read) error is surfaced but does not
\* stop the render loop: after it the loop proceeds to the next tick.
C18_InputErrorKeepsLoop ==
    [][EventStep("error") => mainpc' = AfterEvents(exit')]_vars


\* C19: the render tick never blocks on the result channel. The drain step
\* can always be taken, whether the channel holds messages, is empty or does
\* not exist; it takes every message available and leaves none behind, and
\* the paint is the step that follows it.
C19_TickNeverBlocks ==
    /\ [](mainpc = "drain" => ENABLED RunDrain)
    /\ [](mainpc = "draw" => ENABLED RunDraw)
    /\ [][(mainpc = "drain" /\ mainpc' # "drain") =>
            /\ mainpc' = "draw"
            /\ rx # None =>
                 /\ chan' = <<>>
                 /\ network_info' = ApplyAll(network_info, chan)
                 /\ dns_applied' = dns_applied + CountDNS(chan)
            /\ rx = None => UNCHANGED <<network_info, chan, dns_applied>>]_vars
    /\ [][(mainpc = "draw" /\ mainpc' = "events") =>
            (frame' = RenderFrame /\ UNCHANGED <<chan, network_info>>)]_vars

\* a tick completed while the probes run and none has produced anything
C19_Witness ==
    /\ mainpc = "events"
    /\ rx # None
    /\ chan = <<>>
    /\ local_sent = <<>>
    /\ dns_sent = <<>>
    /\ dns_pc = "lookup"
    /\ frame.dns = "Fetching list..."
    /\ stage = "Running"

AfterRun == {"returned", "dropped", "exited"}

\* C20: the quit key leads to shutdown from either stage. It can be pressed
\* at every input step; handling it sets exit and makes run return Ok, and
\* after that no drain, paint or input step is taken, whatever the probes do.
C20_QuitShutsDown ==
    /\ [](mainpc = "events" => ENABLED KeyQuit)
    /\ [][EventStep("q") => (exit' /\ mainpc' = "returned")]_vars
    /\ [][(mainpc \in AfterRun) =>
            (/\ mainpc' \in AfterRun
             /\ UNCHANGED <<frame, network_info, dns_applied, last_key, exit, stage>>)]_vars

\* quit pressed in Running while the DNS probe is between two queries
C20_Witness ==
    /\ mainpc = "returned"
    /\ last_key = "q"
    /\ exit
    /\ stage = "Running"
    /\ dns_pc = "check"
    /\ dns_idx = 2


\* C21: if the interface list is empty at startup the program fails with an
\* error before entering the state machine: main bails out, the render loop
\* never runs, no frame is painted and no probe is spawned.
C21_EmptyListFailsFast ==
    /\ [](interfaces = <<>> =>
            /\ mainpc \in {"main", "bailed", "dropped", "exited"}
            /\ frame = NoFrame
            /\ spawned = [local |-> 0, dns |-> 0]
            /\ channels_created = 0
            /\ rx = None
            /\ local_pc = "unspawned"
            /\ dns_pc = "unspawned"
            /\ stage = "PickInterface"
            /\ interface_list = <<>>
            /\ chosen_interface = None)
    /\ [][(interfaces = <<>> /\ mainpc = "main" /\ mainpc' # "main") =>
            mainpc' = "bailed"]_vars

\* the process has ended on the error without having painted anything
C21_Witness ==
    /\ interfaces = <<>>
    /\ mainpc = "exited"
    /\ frame = NoFrame
    /\ spawned = [local |-> 0, dns |-> 0]


\* a check_dns_resolution call starts and another one was made before it
NextCheckStarts == dns_checked # <<>> /\ Len(dns_checked') = Len(dns_checked) + 1

\* C22: the starts of consecutive per-server DNS checks are at least 50 ms
\* apart: when a check starts after another one, at least 50 ms have gone by
\* since that one started.
C22_ChecksSpaced50ms ==
    [][NextCheckStarts => dns_elapsed = "atleast50"]_vars


\* the message that announces the servers of the configuration, none checked yet
AnnouncedList ==
    LET servers == Dedup(dns_config.servers)
    IN [can_fetch |-> Some(TRUE), can_bind_interface |-> None,
        dns_servers |-> [i \in 1..Len(servers) |-> [ip |-> servers[i], can_resolve |-> None]]]

\* C23: when the configuration is read and the interface address is found,
\* the first DNS message emitted is the deduplicated list with every
\* resolution unknown, and it is emitted before the first check starts. (While
\* the receiver exists: a send after it was dropped panics instead, see C8.)
C23_ListAnnouncedFirst ==
    /\ []((dns_config.result = "Ok" /\ dns_lookup = "Ok") =>
            /\ dns_sent # <<>> => dns_sent[1] = AnnouncedList
            /\ dns_sent = <<>> => (dns_pc = "panicked" /\ rx_dropped)
            /\ dns_checked # <<>> => dns_sent # <<>>)
    /\ [][(dns_checked = <<>> /\ dns_checked' # <<>>) =>
            (dns_sent = <<AnnouncedList>> /\ dns_config.result = "Ok" /\ dns_lookup = "Ok")]_vars

\* two configured entries naming one server: announced once, stored, not yet checked
C23_Witness ==
    /\ dns_lookup = "Ok"
    /\ Len(dns_config.servers) = 2
    /\ dns_sent = <<AnnouncedList>>
    /\ Len(dns_sent[1].dns_servers) = 1
    /\ dns_checked = <<>>
    /\ dns_pc = "check"
    /\ dns_applied = 1
    /\ network_info.dns_info = AnnouncedList


Tags(messages) == {messages[i].tag : i \in 1..Len(messages)}

\* C24: applying a message of one category changes only that category's
\* sub-snapshot: a LocalInfo message leaves the DNS sub-snapshot unchanged, a
\* DNSInfo message leaves the local one unchanged, a message of any other
\* category leaves the whole snapshot unchanged, and no message changes the
\* session state (stage, hover index, chosen interface).
C24_CategoriesIndependent ==
    /\ [](\A i \in 1..Len(chan) :
            LET message == chan[i]
                applied == ApplyMessage(network_info, message)
            IN /\ message.tag = "LocalInfo" =>
                    (applied.local_info = message.val
                     /\ applied.dns_info = network_info.dns_info)
               /\ message.tag = "DNSInfo" =>
                    (applied.dns_info = message.val
                     /\ applied.local_info = network_info.local_info)
               /\ message.tag \notin {"LocalInfo", "DNSInfo"} => applied = network_info)
    /\ [][(mainpc = "drain" /\ mainpc' = "draw") =>
            /\ "LocalInfo" \notin Tags(chan) =>
                 network_info'.local_info = network_info.local_info
            /\ "DNSInfo" \notin Tags(chan) =>
                 network_info'.dns_info = network_info.dns_info
            /\ UNCHANGED <<stage, interface_hover_index, chosen_interface,
                           interface_list, exit>>]_vars

\* a LocalInfo message and one of another category were drained: the local
\* column is the message's, the DNS column is the one there was before
C24_Witness ==
    /\ mainpc = "draw"
    /\ chan = <<>>
    /\ network_info.local_info = LocalInfoOf("Err")
    /\ network_info.dns_info = InitialDNSInfo(<<1, 2>>)


\* the messages sent so far whose fetch outcome is available
AvailableSent == SelectSeq(dns_sent, LAMBDA info : info.can_fetch = Some(TRUE))

ServerIps(info) == [i \in 1..Len(info.dns_servers) |-> info.dns_servers[i].ip]

KnownEntries(info) ==
    {i \in 1..Len(info.dns_servers) : info.dns_servers[i].can_resolve # None}

\* C25: in every DNS message with fetch outcome available emitted during one
\* run, the server list has the same addresses in the same order with no
\* duplicates, the servers whose result is known form a prefix of the list,
\* each such message after the first resolves exactly one more server than
\* the previous one, and a result once set is never changed by a later
\* available message.
C25_AvailableMessagesGrowByOne ==
    \A i \in 1..Len(AvailableSent) :
        LET info == AvailableSent[i]
        IN /\ ServerIps(info) = Dedup(dns_config.servers)
           /\ NoDuplicates(ServerIps(info))
           /\ KnownEntries(info) = 1..(i - 1)
           /\ \A j \in 1..(i - 1) : \A k \in KnownEntries(AvailableSent[j]) :
                info.dns_servers[k].can_resolve =
                    AvailableSent[j].dns_servers[k].can_resolve

\* two servers, the first resolved, the second failed: three available messages
C25_Witness ==
    /\ Len(AvailableSent) = 3
    /\ AvailableSent[2].dns_servers[1].can_resolve = Some(TRUE)
    /\ AvailableSent[3].dns_servers[1].can_resolve = Some(TRUE)
    /\ AvailableSent[3].dns_servers[2].can_resolve = Some(FALSE)
    /\ dns_pc = "done"


DnsRunning == dns_pc \in {"start", "lookup", "check"}

\* C26: the DNS probe always terminates, after emitting at most 1 + n
\* messages for n deduplicated servers, and when it ends without a terminal
\* failure the last emitted snapshot has every server resolved to success or
\* failure. (A probe still running when the process exits ends with it; a
\* probe that panics has ended on a failure, see C8.)
C26_DnsProbeTerminates ==
    /\ [](Len(dns_sent) <= 1 + Len(Dedup(dns_config.servers)))
    /\ [](dns_pc = "done" =>
            /\ dns_sent # <<>>
            /\ LET last == dns_sent[Len(dns_sent)]
               IN last.can_fetch = Some(TRUE) =>
                    /\ ServerIps(last) = Dedup(dns_config.servers)
                    /\ KnownEntries(last) = 1..Len(last.dns_servers))
    /\ []((DnsRunning /\ mainpc # "exited") =>
            ENABLED DnsStep)
    /\ [][DnsStopped => dns_pc' = dns_pc]_vars
    /\ DnsRunning ~> (DnsStopped \/ mainpc = "exited")

\* both servers of the list are resolved in the third and last message,
\* which the UI has applied while still running
C26_Witness ==
    /\ dns_pc = "done"
    /\ Len(dns_sent) = 3
    /\ Len(Dedup(dns_config.servers)) = 2
    /\ KnownEntries(dns_sent[3]) = {1, 2}
    /\ dns_applied = 3
    /\ mainpc \in LoopPcs

====
